---- MODULE Spec2Model ----
(***************************************************************************)
(* The Map Engine of food-tracker (src/core/map-engine.ts) and its Leaflet *)
(* adapter (src/core/adapters/leaflet-adapter.ts) as a state machine.      *)
(*                                                                         *)
(* Feature objects live in a heap and are named by reference, as in        *)
(* JavaScript: the engine stores the caller's objects, it never copies.    *)
(* A JavaScript Map is a sequence of entries in insertion order.           *)
(* Every public method of the engine is one action; the private methods    *)
(* and the adapter's methods are operators on an engine record E that the  *)
(* actions compose, so that one action is one whole call.                  *)
(***************************************************************************)
EXTENDS Integers, Sequences, FiniteSets, TLC

VARIABLES
  heap,        \* feature objects: heap[r] is the object behind reference r
  features,    \* MapEngine.features: entries [key, ref], insertion order
  markers,     \* LeafletAdapter.markers: entries [key, marker], insertion order
  layerGroup,  \* LeafletAdapter.layerGroup: the markers drawn, in drawing order
  eventListeners, \* MapEngine.eventListeners: entries [key, cbs], insertion order
  mapClick,    \* the handlers the Leaflet map holds for its 'click' event
  view,        \* the view of the Leaflet map: "initial", or "fit" to markers
  leaflet,     \* what Leaflet does with the bounds of markers in this run
  emitted,     \* the emit() calls of the last engine call, in order
  calls,       \* the listener invocations of the last engine call, in order
  fits,        \* the fitBounds() invocations of the last engine call, in order
  last,        \* the last engine call: its name, arguments and outcome
  shownPred,   \* history: predicate of the last showFeatures since load/clear
  added,       \* history: what addFeature and the later updates gave each id
  loaded,      \* history: the markers right after the last load, the filters since
  exported,    \* the collection a caller got from export(), as it was returned
  ops,         \* number of engine calls made
  searchInput, \* UIController: the text in the search box, lower case
  selectedTags, \* UIController.selectedTags
  memoryCache, \* StorageLayer.memoryCache: null or the collection's objects
  localStorage, \* localStorage: the item of each of the two keys
  saved        \* history: the collection last saved, those saved before a clear

\* the state of the UI controller and of the storage layer
appVars == <<searchInput, selectedTags, memoryCache, localStorage, saved>>

vars ==
  <<heap, features, markers, layerGroup, eventListeners, mapClick, view,
    leaflet, emitted, calls, fits, last, shownPred, added, loaded, exported,
    ops, searchInput, selectedTags, memoryCache, localStorage, saved>>

----------------------------------------------------------------------------
(* Bounds of the model *)

MaxOps == 2
MaxObjs == 2
MaxLoad == 2
MaxListeners == 2

----------------------------------------------------------------------------
(* Values *)

\* JavaScript undefined: a key or field that is not there
Absent == "absent"

\* the number 0 as a top-level id (types.ts: id?: string | number)
N0 == "num:0"

\* top-level ids and properties.id values of the features callers build
TopIds == {Absent, N0, "a"}
PropIds == {Absent, "b"}
Coords == {<<-370, 4041>>}

\* a feature whose geometry holds no coordinates
NoCoords == <<>>

\* identifiers ensureFeatureId can synthesize
GenIds == {"poi-1", "poi-2"}

\* identifiers callers pass to updateFeature and removeFeature
CallIds == {"a", "b", "poi-1", "0"}

\* the partialProperties callers pass to updateFeature
Partials ==
  [id : {Absent, "a", "b"}, name : {Absent}, rating : {Absent, "5"}]

\* the GeoJSONFeature objects callers build
InputFeatures ==
  [id : TopIds,
   properties : [id : PropIds, name : {"X"}, rating : {Absent}],
   geometry : Coords]

\* the event kinds: FeatureEventType, and the 'map:click' of handleMapClick
EventTypes == {"click", "created", "updated", "deleted", "map:click"}

\* the callbacks callers pass to on(): l1 only looks at the event, reg
\* registers l1 for the kind of the event it is called with
Callbacks == {"l1", "reg"}

\* where the user clicks the map surface: (lat, lng)
ClickPoints == {<<4041, -370>>}

\* what Leaflet does with the bounds of the markers: they are valid, they are
\* not (isValid() is false), or building them throws
LibOutcomes == {"ok", "invalid", "throws"}

\* the filter functions callers pass to showFeatures
Preds == {"all", "rated", "top"}

\* the search texts typed (lowercased by the input listener) and the tags
\* of the tag buttons
Queries == {"", "x"}
TagNames == {"t"}

\* s.toLowerCase(), for the texts of the model
Lower(s) == IF s = "X" THEN "x" ELSE IF s = "Y" THEN "y" ELSE s

\* s.includes(q), for texts of at most one character
Includes(s, q) == q = "" \/ s = q

\* tags.join(' '), for at most one tag
Join(tags) == IF tags = <<>> THEN "" ELSE tags[1]

\* feature.properties.tags || [] and feature.properties.comments || ''
TagsOf(f) ==
  IF "tags" \in DOMAIN f.properties THEN f.properties.tags ELSE <<>>
CommentsOf(f) ==
  IF "comments" \in DOMAIN f.properties THEN f.properties.comments ELSE ""

\* matchesSearch of handleSearch: the query is in the name, tags or comments
matchesSearch(f, q) ==
  \/ Includes(Lower(IF f.properties.name = Absent THEN ""
                    ELSE f.properties.name), q)
  \/ Includes(Lower(Join(TagsOf(f))), q)
  \/ Includes(Lower(CommentsOf(f)), q)

\* matchesTags: featureTags.some(tag => this.selectedTags.has(tag))
matchesTags(f, sel) == \E i \in 1..Len(TagsOf(f)) : TagsOf(f)[i] \in sel

\* the name the model gives the filter function the UI builds for a search
\* text and a set of selected tags
FilterName(q, sel) ==
  IF q = "" THEN (IF sel = {} THEN "all" ELSE "tag:t")
  ELSE IF sel = {} THEN "q:x" ELSE "q:x+tag:t"

\* filterFn(feature): () => true, f => !!f.properties.rating,
\* f => f.id !== undefined, and the filters of the UI controller
Pred(p, f) ==
  IF p = "all" THEN TRUE
  ELSE IF p = "rated" THEN f.properties.rating # Absent
  ELSE IF p = "top" THEN f.id # Absent
  ELSE IF p = "tag:t" THEN matchesTags(f, TagNames)
  ELSE IF p = "q:x" THEN matchesSearch(f, "x")
  ELSE matchesSearch(f, "x") /\ matchesTags(f, TagNames)

----------------------------------------------------------------------------
(* JavaScript helpers *)

\* truthiness of an id value: undefined, 0 and "" are falsy
Truthy(v) == v \notin {Absent, N0, ""}

\* v.toString() of a string or number
ToStr(v) == IF v = N0 THEN "0" ELSE v

\* Map.has
MapHas(m, k) == \E i \in 1..Len(m) : m[i].key = k

\* index of the entry of key k
MapIdx(m, k) == CHOOSE i \in 1..Len(m) : m[i].key = k

\* Map.set: a new key is appended, an existing key keeps its place
MapSet(m, e) ==
  IF MapHas(m, e.key) THEN [m EXCEPT ![MapIdx(m, e.key)] = e] ELSE Append(m, e)

\* Map.delete
MapDelete(m, k) == SelectSeq(m, LAMBDA e : e.key # k)

\* a sequence without its element at index i
RemoveAt(s, i) == SubSeq(s, 1, i - 1) \o SubSeq(s, i + 1, Len(s))

\* LayerGroup.removeLayer: the marker object mk leaves the drawn layers
RemoveLayer(lg, mk) ==
  IF \E i \in 1..Len(lg) : lg[i] = mk
  THEN RemoveAt(lg, CHOOSE i \in 1..Len(lg) :
                      lg[i] = mk /\ \A j \in (i + 1)..Len(lg) : lg[j] # mk)
  ELSE lg

----------------------------------------------------------------------------
(* LeafletAdapter, on an engine record                                      *)
(* E = [heap, features, markers, layerGroup, eventListeners, mapClick,      *)
(*      view, emitted, calls, fits, thrown]                                 *)

\* the key addMarker registers a marker under:
\* feature.id?.toString() || feature.properties.id
MarkerKey(f) ==
  IF f.id # Absent /\ ToStr(f.id) # "" THEN ToStr(f.id) ELSE f.properties.id

\* addMarker(feature, options): draw a marker, register it when the key is
\* truthy; reading the coordinates of a feature without geometry throws
addMarker(E, ref, popup) ==
  LET f == E.heap[ref]
      marker == [ref |-> ref, popup |-> popup,
                 latLng |-> <<f.geometry[2], f.geometry[1]>>]
      id == MarkerKey(f)
  IN IF f.geometry = NoCoords THEN [E EXCEPT !.thrown = TRUE]
     ELSE [E EXCEPT !.layerGroup = Append(@, marker),
                    !.markers = IF id \notin {Absent, ""}
                                THEN MapSet(@, [key |-> id, marker |-> marker])
                                ELSE @]

\* removeMarker(id)
removeMarker(E, id) ==
  IF MapHas(E.markers, id)
  THEN [E EXCEPT !.layerGroup =
                   RemoveLayer(@, E.markers[MapIdx(E.markers, id)].marker),
                 !.markers = MapDelete(@, id)]
  ELSE E

\* clearMarkers()
clearMarkers(E) == [E EXCEPT !.layerGroup = <<>>, !.markers = <<>>]

\* onMapClick(callback): the map holds one more handler for 'click'
onMapClick(E, callback) == [E EXCEPT !.mapClick = Append(@, callback)]

\* the invocation of fitBounds is recorded with what is drawn and stored then
Fit(E) ==
  [E EXCEPT !.fits = Append(@, [drawn |-> Len(E.layerGroup),
                                stored |-> Len(E.features)])]

\* fitBounds without the try/catch around the Leaflet calls
fitBounds_NoCatch(E, lib) ==
  IF E.markers = <<>> THEN Fit(E)
  ELSE IF lib = "ok" THEN [Fit(E) EXCEPT !.view = "fit"]
  ELSE IF lib = "invalid" THEN Fit(E)
  ELSE [Fit(E) EXCEPT !.thrown = TRUE]

\* fitBounds(): nothing without markers; the view is fit when Leaflet gives
\* valid bounds; invalid bounds are skipped and an exception is caught
fitBounds(E, lib) ==
  IF E.markers = <<>> THEN Fit(E)
  ELSE IF lib = "ok" THEN [Fit(E) EXCEPT !.view = "fit"]
  ELSE Fit(E)

----------------------------------------------------------------------------
(* MapEngine, private methods *)

\* createPopupContent(feature): the parts of the popup the model keeps
createPopupContent(f) ==
  [name |-> IF f.properties.name = Absent THEN "Unnamed" ELSE f.properties.name,
   rating |-> IF f.properties.rating = Absent THEN "0" ELSE f.properties.rating]

\* renderFeature(feature)
renderFeature(E, ref) == addMarker(E, ref, createPopupContent(E.heap[ref]))

\* the identifier ensureFeatureId returns; gen is the one it would synthesize
FeatureId(f, gen) ==
  IF Truthy(f.id) THEN ToStr(f.id)
  ELSE IF Truthy(f.properties.id) THEN f.properties.id
  ELSE gen

\* ensureFeatureId(feature): a synthesized identifier is written to properties.id
ensureFeatureId(E, ref, gen) ==
  LET f == E.heap[ref]
  IN IF Truthy(f.id) \/ Truthy(f.properties.id)
     THEN E
     ELSE [E EXCEPT !.heap[ref].properties.id = gen]

\* this.eventListeners.get(type), the empty list for undefined
Listeners(E, type) ==
  IF MapHas(E.eventListeners, type)
  THEN E.eventListeners[MapIdx(E.eventListeners, type)].cbs
  ELSE <<>>

\* the number of callbacks registered, over all kinds
Registered(E) ==
  Cardinality(UNION {{<<i, j>> : j \in 1..Len(E.eventListeners[i].cbs)} :
                       i \in 1..Len(E.eventListeners)})

\* on(type, callback): the list of the kind is created when missing, the
\* callback is pushed at its end
on(E, type, callback) ==
  [E EXCEPT !.eventListeners =
     IF MapHas(@, type)
     THEN [@ EXCEPT ![MapIdx(@, type)].cbs = Append(@, callback)]
     ELSE Append(@, [key |-> type, cbs |-> <<callback>>])]

\* callback(event), event = { type, feature }: the invocation is recorded
\* with the emit() call it belongs to; reg then calls on(event.type, l1)
invoke(E, callback, type, ref, f) ==
  LET E1 == [E EXCEPT !.calls =
               Append(@, [cb |-> callback, type |-> type, ref |-> ref,
                          feature |-> f, emission |-> Len(E.emitted)])]
  IN IF callback = "reg" /\ Registered(E) < MaxListeners
     THEN on(E1, type, "l1")
     ELSE E1

\* the listeners called last to first
RECURSIVE deliver_Backwards(_, _, _, _, _, _)
deliver_Backwards(E, type, ref, f, i, n) ==
  IF i > n THEN E
  ELSE deliver_Backwards(invoke(E, Listeners(E, type)[n + 1 - i], type, ref, f),
                         type, ref, f, i + 1, n)

\* listeners.forEach(callback => callback(event)), from index i: forEach
\* visits the n elements the array had when it was called
RECURSIVE deliver(_, _, _, _, _, _)
deliver(E, type, ref, f, i, n) ==
  IF i > n THEN E
  ELSE deliver(invoke(E, Listeners(E, type)[i], type, ref, f),
               type, ref, f, i + 1, n)

\* a loop that reads the length of the array at every step
RECURSIVE deliverLive(_, _, _, _, _)
deliverLive(E, type, ref, f, i) ==
  IF i > Len(Listeners(E, type)) THEN E
  ELSE deliverLive(invoke(E, Listeners(E, type)[i], type, ref, f),
                   type, ref, f, i + 1)

\* the event as it is handed to emit, with what a listener called now would see
Emission(E, type, ref, f) ==
  [type |-> type, ref |-> ref, feature |-> f, features |-> E.features,
   markers |-> E.markers, listeners |-> Listeners(E, type)]

\* emit where the loop also visits the callbacks pushed while it runs
emitObj_Live(E, type, ref, f) ==
  deliverLive([E EXCEPT !.emitted = Append(@, Emission(E, type, ref, f))],
              type, ref, f, 1)

\* emit(type, feature) for the feature object f
emitObj(E, type, ref, f) ==
  deliver([E EXCEPT !.emitted = Append(@, Emission(E, type, ref, f))],
          type, ref, f, 1, Len(Listeners(E, type)))

\* emit(type, feature) for the feature behind ref
emit(E, type, ref) == emitObj(E, type, ref, E.heap[ref])

\* the feature handleMapClick builds for a click at (lat, lng)
ClickFeature(lat, lng) ==
  [type |-> "Feature", properties |-> [lat |-> lat, lng |-> lng],
   geometry |-> [type |-> "Point", coordinates |-> <<lng, lat>>]]

\* handleMapClick(lat, lng)
handleMapClick(E, lat, lng) ==
  emitObj(E, "map:click", 0, ClickFeature(lat, lng))

----------------------------------------------------------------------------
(* MapEngine, public methods as functions of the engine record *)

\* addFeature emitting before it stores and renders
addFeature_EmitFirst(E, ref, gen, emitEvent) ==
  LET id == FeatureId(E.heap[ref], gen)
      E1 == ensureFeatureId(E, ref, gen)
      E2 == IF emitEvent THEN emit(E1, "created", ref) ELSE E1
      E3 == [E2 EXCEPT !.features = MapSet(@, [key |-> id, ref |-> ref])]
  IN renderFeature(E3, ref)

\* addFeature(feature, emitEvent)
addFeature(E, ref, gen, emitEvent) ==
  LET id == FeatureId(E.heap[ref], gen)
      E1 == ensureFeatureId(E, ref, gen)
      E2 == [E1 EXCEPT !.features = MapSet(@, [key |-> id, ref |-> ref])]
      E3 == renderFeature(E2, ref)
  IN IF emitEvent /\ ~E3.thrown THEN emit(E3, "created", ref) ELSE E3

\* clear()
clear(E) == [clearMarkers(E) EXCEPT !.features = <<>>]

\* load adding each feature with the default emitEvent
RECURSIVE loadEach_Emitting(_, _, _, _)
loadEach_Emitting(E, c, gens, i) ==
  IF i > Len(c) THEN E
  ELSE loadEach_Emitting(addFeature(E, c[i], gens[i], TRUE), c, gens, i + 1)

\* data.features.forEach(feature => this.addFeature(feature, false)), from
\* index i; an exception ends the loop
RECURSIVE loadEach(_, _, _, _)
loadEach(E, c, gens, i) ==
  IF i > Len(c) \/ E.thrown THEN E
  ELSE loadEach(addFeature(E, c[i], gens[i], FALSE), c, gens, i + 1)

\* load without the clear() it starts with
load_NoClear(E, c, gens, lib) ==
  LET E1 == loadEach(E, c, gens, 1)
  IN IF E1.thrown THEN E1 ELSE fitBounds(E1, lib)

\* load fitting the view before it adds the features
load_FitFirst(E, c, gens, lib) ==
  loadEach(fitBounds(clear(E), lib), c, gens, 1)

\* load(data): an exception of addFeature leaves it before fitBounds()
load(E, c, gens, lib) ==
  LET E1 == loadEach(clear(E), c, gens, 1)
  IN IF E1.thrown THEN E1 ELSE fitBounds(E1, lib)

\* this.features.get(id): the reference stored under id, 0 for undefined
Lookup(E, id) ==
  IF MapHas(E.features, id) THEN E.features[MapIdx(E.features, id)].ref ELSE 0

\* updateFeature assigning properties instead of merging them
Merge_Replace(old, p) == p

\* { ...feature.properties, ...properties }
Merge(old, p) == [k \in DOMAIN old |-> IF p[k] # Absent THEN p[k] ELSE old[k]]

\* updateFeature without the early return: undefined.properties throws
updateFeature_NoGuard(E, id, p) ==
  LET ref == Lookup(E, id)
      E1 == [E EXCEPT !.heap[ref].properties = Merge(@, p)]
      E2 == removeMarker(E1, id)
      E3 == renderFeature(E2, ref)
  IN IF ref = 0 THEN [E EXCEPT !.thrown = TRUE] ELSE emit(E3, "updated", ref)

\* updateFeature(id, properties)
updateFeature(E, id, p) ==
  LET ref == Lookup(E, id)
      E1 == [E EXCEPT !.heap[ref].properties = Merge(@, p)]
      E2 == removeMarker(E1, id)
      E3 == renderFeature(E2, ref)
  IN IF ref = 0 THEN E
     ELSE IF E3.thrown THEN E3
     ELSE emit(E3, "updated", ref)

\* removeFeature emitting before it removes the marker and the entry
removeFeature_EmitFirst(E, id) ==
  LET ref == Lookup(E, id)
      E1 == emit(E, "deleted", ref)
      E2 == removeMarker(E1, id)
  IN IF ref = 0 THEN E ELSE [E2 EXCEPT !.features = MapDelete(@, id)]

\* removeFeature(id)
removeFeature(E, id) ==
  LET ref == Lookup(E, id)
      E1 == removeMarker(E, id)
      E2 == [E1 EXCEPT !.features = MapDelete(@, id)]
  IN IF ref = 0 THEN E ELSE emit(E2, "deleted", ref)

\* the stored features filterFn accepts are rendered, from index i
RECURSIVE showEach(_, _, _)
showEach(E, p, i) ==
  IF i > Len(E.features) \/ E.thrown THEN E
  ELSE LET ref == E.features[i].ref
       IN showEach(IF Pred(p, E.heap[ref]) THEN renderFeature(E, ref) ELSE E,
                   p, i + 1)

\* showFeatures without the adapter.clearMarkers() it starts with
showFeatures_KeepMarkers(E, p) == showEach(E, p, 1)

\* showFeatures calling clear() where it calls adapter.clearMarkers()
showFeatures_Clear(E, p) == showEach(clear(E), p, 1)

\* showFeatures(filterFn)
showFeatures(E, p) == showEach(clearMarkers(E), p, 1)

\* export(): the stored feature objects themselves, in store order
export(E) == [i \in 1..Len(E.features) |-> E.features[i].ref]

\* getAllFeatures()
getAllFeatures(E) == [i \in 1..Len(E.features) |-> E.features[i].ref]

----------------------------------------------------------------------------
(* The state machine *)

\* the engine as it is now, before a call
Cur ==
  [heap |-> heap, features |-> features, markers |-> markers,
   layerGroup |-> layerGroup, eventListeners |-> eventListeners,
   mapClick |-> mapClick, view |-> view, emitted |-> <<>>, calls |-> <<>>,
   fits |-> <<>>, thrown |-> FALSE]

\* the record of a call: its name and arguments (fs: the features passed, as
\* they were when passed; keys: the identifiers they were given)
Call(op, id, ref, c, fs, keys, p) ==
  [op |-> op, id |-> id, ref |-> ref, c |-> c, fs |-> fs, keys |-> keys,
   p |-> p, thrown |-> FALSE]

\* the engine after a call, and whether the call threw
Commit(E, call) ==
  /\ heap' = E.heap
  /\ features' = E.features
  /\ markers' = E.markers
  /\ layerGroup' = E.layerGroup
  /\ eventListeners' = E.eventListeners
  /\ mapClick' = E.mapClick
  /\ view' = E.view
  /\ emitted' = E.emitted
  /\ calls' = E.calls
  /\ fits' = E.fits
  /\ last' = [call EXCEPT !.thrown = E.thrown]

NoPartial == [id |-> Absent, name |-> Absent, rating |-> Absent]

\* no load since the store was last changed by another call
NotLoaded ==
  [valid |-> FALSE, c |-> <<>>, fs |-> <<>>, markers |-> <<>>,
   layerGroup |-> <<>>, shows |-> <<>>]

\* memoryCache = null
NoCache == [set |-> FALSE, refs |-> <<>>]

\* a key of localStorage that is not set: getItem gives null
NoItem == [set |-> FALSE, ok |-> FALSE, features |-> <<>>]

\* localStorage with neither STORAGE_KEY nor SYNC_QUEUE_KEY set
NoLocalStorage == [pois |-> NoItem, queue |-> NoItem]

\* nothing saved yet
NotSaved == [set |-> FALSE, refs |-> <<>>, cleared |-> {}]

\* nothing exported yet
NotExported == [refs |-> <<>>, features |-> <<>>]

\* the fields of a new engine and a new adapter, before the constructor body
Empty ==
  [heap |-> <<>>, features |-> <<>>, markers |-> <<>>, layerGroup |-> <<>>,
   eventListeners |-> <<>>, mapClick |-> <<>>, view |-> "initial",
   emitted |-> <<>>, calls |-> <<>>, fits |-> <<>>, thrown |-> FALSE]

\* a constructor that subscribes to the map clicks twice
constructor_Twice(E) ==
  onMapClick(onMapClick(E, "handleMapClick"), "handleMapClick")

\* constructor(config): the adapter is told to call handleMapClick
constructor(E) == onMapClick(E, "handleMapClick")

\* a new engine and adapter before any call
EngineStart ==
  /\ heap = constructor(Empty).heap
  /\ features = constructor(Empty).features
  /\ markers = constructor(Empty).markers
  /\ layerGroup = constructor(Empty).layerGroup
  /\ eventListeners = constructor(Empty).eventListeners
  /\ mapClick = constructor(Empty).mapClick
  /\ view = constructor(Empty).view
  /\ leaflet = "ok"
  /\ emitted = <<>>
  /\ calls = <<>>
  /\ fits = <<>>
  /\ last = Call("new", Absent, 0, <<>>, <<>>, <<>>, NoPartial)
  /\ shownPred = "all"
  /\ added = <<>>
  /\ loaded = NotLoaded
  /\ exported = NotExported
  /\ ops = 0

\* a new UI controller and a new storage layer, with localStorage as found
AppStart(ls) ==
  /\ searchInput = ""
  /\ selectedTags = {}
  /\ memoryCache = NoCache
  /\ localStorage = ls
  /\ saved = NotSaved

Init == EngineStart /\ AppStart(NoLocalStorage)

\* the feature needs no synthesized identifier
HasId(f) == Truthy(f.id) \/ Truthy(f.properties.id)

\* injective sequences of length n over the set S
Distinct(S, n) ==
  {c \in [1..n -> S] : \A i, j \in 1..n : i # j => c[i] # c[j]}

\* the objects a caller has built so far, and those it builds for this call
WithNew(fresh) == heap \o fresh

\* new feature objects a caller builds for one call (a form, a parsed file)
Fresh(n) ==
  UNION {[1..k -> InputFeatures] : k \in 0..n}

\* what Date.now() and Math.random() may give for each feature of c that
\* needs a synthesized identifier (the others draw nothing: "poi-1" stands in)
GenChoices(h, c) ==
  {g \in [1..Len(c) -> GenIds] :
     \A i \in 1..Len(c) : HasId(h[c[i]]) => g[i] = "poi-1"}

Min(x, y) == IF x < y THEN x ELSE y

\* mapEngine.load(data): data holds objects built for the call after objects
\* the caller already had, each object once, at most MaxLoad in all
Load ==
  /\ UNCHANGED appVars
  /\ ops < MaxOps
  /\ \E fresh \in Fresh(Min(MaxLoad, MaxObjs - Len(heap))) :
       \E n \in 0..(MaxLoad - Len(fresh)) : \E old \in Distinct(1..Len(heap), n) :
         LET h == WithNew(fresh)
             c == old \o [i \in 1..Len(fresh) |-> Len(heap) + i]
         IN \E gens \in GenChoices(h, c) :
              LET E == load([Cur EXCEPT !.heap = h], c, gens, leaflet)
              IN /\ Commit(E, Call("load", Absent, 0, c,
                                   [i \in 1..Len(c) |-> h[c[i]]],
                                   [i \in 1..Len(c) |->
                                      FeatureId(h[c[i]], gens[i])],
                                   NoPartial))
                 /\ loaded' = [valid |-> TRUE, c |-> c,
                               fs |-> [i \in 1..Len(c) |-> h[c[i]]],
                               markers |-> E.markers,
                               layerGroup |-> E.layerGroup, shows |-> <<>>]
  /\ shownPred' = "all"
  /\ added' = <<>>
  /\ ops' = ops + 1
  /\ UNCHANGED <<exported, leaflet>>

\* mapEngine.addFeature(feature), of a new object or of one the caller had
AddFeature ==
  /\ UNCHANGED appVars
  /\ ops < MaxOps
  /\ \E fresh \in Fresh(Min(1, MaxObjs - Len(heap))) :
       LET h == WithNew(fresh)
       IN \E ref \in (IF fresh = <<>> THEN 1..Len(heap) ELSE {Len(h)}) :
            \E gens \in GenChoices(h, <<ref>>) :
              LET id == FeatureId(h[ref], gens[1])
                  E == addFeature([Cur EXCEPT !.heap = h], ref, gens[1], TRUE)
              IN /\ Commit(E, Call("addFeature", id, ref, <<>>, <<h[ref]>>,
                                   <<id>>, NoPartial))
                 /\ added' = MapSet(added, [key |-> id,
                                            properties |-> E.heap[ref].properties])
  /\ loaded' = NotLoaded
  /\ ops' = ops + 1
  /\ UNCHANGED <<shownPred, exported, leaflet>>

\* mapEngine.updateFeature(id, properties)
UpdateFeature ==
  /\ UNCHANGED appVars
  /\ ops < MaxOps
  /\ \E id \in CallIds : \E p \in Partials :
       /\ Commit(updateFeature(Cur, id, p),
                 Call("updateFeature", id, Lookup(Cur, id), <<>>, <<>>, <<>>, p))
       /\ added' = IF MapHas(added, id) /\ MapHas(features, id)
                   THEN [added EXCEPT ![MapIdx(added, id)].properties =
                           Merge(@, p)]
                   ELSE added
  /\ loaded' = NotLoaded
  /\ ops' = ops + 1
  /\ UNCHANGED <<shownPred, exported, leaflet>>

\* mapEngine.removeFeature(id)
RemoveFeature ==
  /\ UNCHANGED appVars
  /\ ops < MaxOps
  /\ \E id \in CallIds :
       Commit(removeFeature(Cur, id),
              Call("removeFeature", id, Lookup(Cur, id), <<>>, <<>>, <<>>,
                   NoPartial))
  /\ added' = <<>>
  /\ loaded' = NotLoaded
  /\ ops' = ops + 1
  /\ UNCHANGED <<shownPred, exported, leaflet>>

\* mapEngine.showFeatures(filterFn)
ShowFeatures ==
  /\ UNCHANGED appVars
  /\ ops < MaxOps
  /\ \E p \in Preds :
       /\ Commit(showFeatures(Cur, p),
                 Call("showFeatures", p, 0, <<>>, <<>>, <<>>, NoPartial))
       /\ shownPred' = p
       /\ loaded' = IF loaded.valid
                     THEN [loaded EXCEPT !.shows = Append(@, p)]
                     ELSE loaded
  /\ ops' = ops + 1
  /\ UNCHANGED <<added, exported, leaflet>>

\* mapEngine.clear()
Clear ==
  /\ UNCHANGED appVars
  /\ ops < MaxOps
  /\ Commit(clear(Cur), Call("clear", Absent, 0, <<>>, <<>>, <<>>, NoPartial))
  /\ shownPred' = "all"
  /\ added' = <<>>
  /\ loaded' = NotLoaded
  /\ ops' = ops + 1
  /\ UNCHANGED <<exported, leaflet>>

Next ==
  \/ Load
  \/ AddFeature
  \/ UpdateFeature
  \/ RemoveFeature
  \/ ShowFeatures
  \/ Clear

Spec == Init /\ [][Next]_vars

----------------------------------------------------------------------------
(* Listeners and clicks *)

\* Leaflet fires 'click' on the map: each handler of the map, from index i,
\* calls the callback it was given with e.latlng.lat and e.latlng.lng
RECURSIVE fireMapClick(_, _, _, _)
fireMapClick(E, lat, lng, i) ==
  IF i > Len(E.mapClick) THEN E
  ELSE fireMapClick(handleMapClick(E, lat, lng), lat, lng, i + 1)

\* mapEngine.on(type, callback), at most MaxListeners callbacks in all
On ==
  /\ UNCHANGED appVars
  /\ Registered(Cur) < MaxListeners
  /\ \E type \in EventTypes : \E callback \in Callbacks :
       Commit(on(Cur, type, callback),
              Call("on", type, 0, <<callback>>, <<>>, <<>>, NoPartial))
  /\ UNCHANGED <<shownPred, added, loaded, exported, leaflet, ops>>

\* the user clicks the empty map surface
MapClick ==
  /\ UNCHANGED appVars
  /\ ops < MaxOps
  /\ \E pt \in ClickPoints :
       Commit(fireMapClick(Cur, pt[1], pt[2], 1),
              Call("mapClick", Absent, 0, pt, <<>>, <<>>, NoPartial))
  /\ ops' = ops + 1
  /\ UNCHANGED <<shownPred, added, loaded, exported, leaflet>>

\* the user clicks a drawn marker: the handler renderFeature gave it runs
MarkerClick ==
  /\ UNCHANGED appVars
  /\ ops < MaxOps
  /\ \E i \in 1..Len(layerGroup) :
       Commit(emit(Cur, "click", layerGroup[i].ref),
              Call("markerClick", Absent, layerGroup[i].ref, <<i>>, <<>>, <<>>,
                   NoPartial))
  /\ ops' = ops + 1
  /\ UNCHANGED <<shownPred, added, loaded, exported, leaflet>>

\* the features and arguments of the calls made while listeners are studied
BusFeatures ==
  {f \in InputFeatures : f.id = "a" /\ f.properties.id = Absent}
BusPartial == [id |-> Absent, name |-> Absent, rating |-> "5"]

BusAdd == AddFeature /\ last'.fs[1] \in BusFeatures
BusUpdate == UpdateFeature /\ last'.id = "a" /\ last'.p = BusPartial
BusRemove == RemoveFeature /\ last'.id = "a"

NextBus ==
  \/ On
  \/ BusAdd
  \/ BusUpdate
  \/ BusRemove
  \/ MarkerClick
  \/ MapClick

SpecBus == Init /\ [][NextBus]_vars

----------------------------------------------------------------------------
(* Filtering and fitting the view after a load *)

\* main.ts: the engine is built and the stored collection is loaded; Leaflet
\* may or may not accept the bounds of its markers
LoadedStart(fresh, lib) ==
    LET c == [i \in 1..Len(fresh) |-> i]
    IN \E gens \in GenChoices(fresh, c) :
         LET E == load([constructor(Empty) EXCEPT !.heap = fresh], c, gens, lib)
         IN /\ heap = E.heap
            /\ features = E.features
            /\ markers = E.markers
            /\ layerGroup = E.layerGroup
            /\ eventListeners = E.eventListeners
            /\ mapClick = E.mapClick
            /\ view = E.view
            /\ leaflet = lib
            /\ emitted = E.emitted
            /\ calls = E.calls
            /\ fits = E.fits
            /\ last = Call("load", Absent, 0, c, fresh,
                           [i \in 1..Len(c) |-> FeatureId(fresh[i], gens[i])],
                           NoPartial)
            /\ shownPred = "all"
            /\ added = <<>>
            /\ loaded = [valid |-> TRUE, c |-> c, fs |-> fresh,
                         markers |-> E.markers, layerGroup |-> E.layerGroup,
                         shows |-> <<>>]
            /\ exported = NotExported
            /\ ops = 0

InitShow ==
  \E fresh \in Fresh(Min(MaxLoad, MaxObjs)) : \E lib \in LibOutcomes :
    LoadedStart(fresh, lib) /\ AppStart(NoLocalStorage)

\* adapter.fitBounds(), as the locate button calls it
FitBounds ==
  /\ UNCHANGED appVars
  /\ ops < MaxOps
  /\ Commit(fitBounds(Cur, leaflet),
            Call("fitBounds", leaflet, 0, <<>>, <<>>, <<>>, NoPartial))
  /\ ops' = ops + 1
  /\ UNCHANGED <<shownPred, added, loaded, exported, leaflet>>

NextShow ==
  \/ ShowFeatures
  \/ FitBounds

SpecShow == InitShow /\ [][NextShow]_vars

----------------------------------------------------------------------------
(* Clicking markers after a load *)

\* after main.ts loaded the stored collection: the user clicks markers while
\* the UI updates and removes places
NextClick ==
  \/ MarkerClick
  \/ UpdateFeature
  \/ RemoveFeature

SpecClick == InitShow /\ [][NextClick]_vars

----------------------------------------------------------------------------
(* A caller keeps what export() returned *)

\* const data = mapEngine.export(): the caller holds the returned objects;
\* what they held when returned is kept beside them
Export ==
  /\ UNCHANGED appVars
  /\ Commit(Cur, Call("export", Absent, 0, export(Cur), <<>>, <<>>, NoPartial))
  /\ exported' = [refs |-> export(Cur),
                  features |-> [i \in 1..Len(features) |->
                                  heap[export(Cur)[i]]]]
  /\ UNCHANGED <<shownPred, added, loaded, leaflet, ops>>

NextExport ==
  \/ AddFeature
  \/ UpdateFeature
  \/ Export

SpecExport == Init /\ [][NextExport]_vars

----------------------------------------------------------------------------
(* StorageLayer, on a storage record                                        *)
(* S = [heap, memoryCache, localStorage, result, thrown]                    *)
(* a collection is the sequence of its feature objects; an item of          *)
(* localStorage is a text: the features it spells, or no JSON at all        *)

\* private backendEnabled = false
backendEnabled == FALSE

\* the storage layer as it is now, before a call
CurStore ==
  [heap |-> heap, memoryCache |-> memoryCache, localStorage |-> localStorage,
   result |-> NoCache, thrown |-> FALSE]

\* JSON.stringify(data): the text spells the features as they are now
stringify(h, refs) ==
  [set |-> TRUE, ok |-> TRUE, features |-> [i \in 1..Len(refs) |-> h[refs[i]]]]

\* JSON.parse(text): new objects holding what the text spells; the result is
\* the new collection. A text that is no JSON throws
parse(S, text) ==
  IF ~text.ok THEN [S EXCEPT !.thrown = TRUE]
  ELSE [S EXCEPT !.heap = @ \o text.features,
                 !.result = [set |-> TRUE,
                             refs |-> [i \in 1..Len(text.features) |->
                                         Len(S.heap) + i]]]

\* getFromLocalStorage(): null when the key is not set or its text does not
\* parse
getFromLocalStorage(S) ==
  IF ~S.localStorage.pois.set THEN [S EXCEPT !.result = NoCache]
  ELSE LET S1 == parse(S, S.localStorage.pois)
       IN IF S1.thrown THEN [S EXCEPT !.result = NoCache] ELSE S1

\* poi.name.replace(/\s+/g, '-').toLowerCase()
Slug(name) ==
  IF name = "X" THEN "x" ELSE IF name = "Taco Bar" THEN "taco-bar" ELSE name

\* getDefaultData(): one feature per demo place fetched, the empty
\* collection when the fetch fails
getDefaultData(S, demo) ==
  IF ~demo.ok THEN [S EXCEPT !.result = [set |-> TRUE, refs |-> <<>>]]
  ELSE LET fs == [i \in 1..Len(demo.pois) |->
                    [id |-> Absent,
                     properties |-> [id |-> Slug(demo.pois[i]),
                                     name |-> demo.pois[i], rating |-> Absent],
                     geometry |-> CHOOSE g \in Coords : TRUE]]
       IN [S EXCEPT !.heap = @ \o fs,
                    !.result = [set |-> TRUE,
                                refs |-> [i \in 1..Len(fs) |-> Len(S.heap) + i]]]

\* load() that reads localStorage before the memory cache
storageLoad_LocalFirst(S, demo) ==
  LET S1 == getFromLocalStorage(S)
  IN IF S1.result.set THEN [S1 EXCEPT !.memoryCache = S1.result]
     ELSE IF S.memoryCache.set THEN [S EXCEPT !.result = S.memoryCache]
     ELSE LET S2 == getDefaultData(S1, demo)
          IN [S2 EXCEPT !.memoryCache = S2.result]

\* load(): the memory cache, else localStorage, else the demo places
storageLoad(S, demo) ==
  IF S.memoryCache.set THEN [S EXCEPT !.result = S.memoryCache]
  ELSE LET S1 == getFromLocalStorage(S)
       IN IF S1.result.set THEN [S1 EXCEPT !.memoryCache = S1.result]
          ELSE LET S2 == getDefaultData(S1, demo)
               IN [S2 EXCEPT !.memoryCache = S2.result]

\* saveToLocalStorage(data): a setItem that throws is logged, nothing more
saveToLocalStorage(S, refs, writeOk) ==
  IF writeOk THEN [S EXCEPT !.localStorage.pois = stringify(S.heap, refs)]
  ELSE S

\* queueForSync(data): the queue in localStorage gets one more entry
queueForSync(S, refs, writeOk) ==
  LET queue == IF S.localStorage.queue.set THEN S.localStorage.queue.features
               ELSE <<>>
  IN IF writeOk /\ (S.localStorage.queue.set => S.localStorage.queue.ok)
     THEN [S EXCEPT !.localStorage.queue =
             [set |-> TRUE, ok |-> TRUE,
              features |-> Append(queue, stringify(S.heap, refs).features)]]
     ELSE S

\* save(data): syncToBackend always throws, so an enabled backend queues
storageSave(S, refs, writeOk) ==
  LET S1 == saveToLocalStorage([S EXCEPT !.memoryCache =
                                  [set |-> TRUE, refs |-> refs]],
                               refs, writeOk)
  IN IF backendEnabled THEN queueForSync(S1, refs, writeOk) ELSE S1

\* importFromFile(file): the parsed collection is saved and returned
importFromFile(S, text, writeOk) ==
  LET S1 == parse(S, text)
  IN IF S1.thrown THEN S1
     ELSE [storageSave(S1, S1.result.refs, writeOk) EXCEPT !.result = S1.result]

\* clear()
storageClear(S) ==
  [S EXCEPT !.memoryCache = NoCache,
            !.localStorage = [pois |-> NoItem, queue |-> NoItem]]

----------------------------------------------------------------------------
(* The storage layer, and importing a file *)

\* the features of the collections saved and of the files imported: one
\* well-formed, one whose geometry holds no coordinates
GoodFeature ==
  [id |-> "a", properties |-> [id |-> Absent, name |-> "X", rating |-> Absent],
   geometry |-> CHOOSE g \in Coords : TRUE]
BadFeature ==
  [id |-> Absent, properties |-> [id |-> "b", name |-> "X", rating |-> Absent],
   geometry |-> NoCoords]

\* sequences over S of length at most n
SeqUpTo(S, n) == UNION {[1..k -> S] : k \in 0..n}

\* a text that is no JSON
Garbled == [set |-> TRUE, ok |-> FALSE, features |-> <<>>]

\* the texts of the files the user picks
FileTexts ==
  {Garbled} \cup
  {[set |-> TRUE, ok |-> TRUE, features |-> fs] :
     fs \in SeqUpTo({GoodFeature, BadFeature}, MaxLoad)}

\* what an earlier session left in localStorage: nothing, a saved
\* collection, or a text that does not parse
EarlierSessions ==
  {NoLocalStorage,
   [pois |-> [set |-> TRUE, ok |-> TRUE, features |-> <<GoodFeature>>],
    queue |-> NoItem],
   [pois |-> Garbled, queue |-> NoItem]}

\* what fetching /demo-pois.geojson gives: the places, or a failure
DemoData ==
  {[ok |-> FALSE, pois |-> <<>>], [ok |-> TRUE, pois |-> <<"Taco Bar">>]}

InitStorage == EngineStart /\ \E ls \in EarlierSessions : AppStart(ls)

\* the storage layer after a call
CommitStore(S) ==
  /\ heap' = S.heap
  /\ memoryCache' = S.memoryCache
  /\ localStorage' = S.localStorage

\* the engine is left alone
engineVars ==
  <<features, markers, layerGroup, eventListeners, mapClick, view, leaflet,
    emitted, calls, fits, shownPred, added, loaded, exported>>

\* the feature objects of a collection
Objects(refs) == {refs[i] : i \in 1..Len(refs)}

\* the feature objects of a collection, as they are in heap h
Values(h, refs) == [i \in 1..Len(refs) |-> h[refs[i]]]

\* AppController.loadData(): this.data = await this.storage.load()
StorageLoad ==
  /\ ops < MaxOps
  /\ \E demo \in DemoData :
       LET S == storageLoad(CurStore, demo)
       IN /\ CommitStore(S)
          /\ last' = Call("storageLoad", Absent, 0, S.result.refs,
                          Values(S.heap, S.result.refs), <<>>, NoPartial)
  /\ ops' = ops + 1
  /\ UNCHANGED <<engineVars, searchInput, selectedTags, saved>>

\* storage.save(data) of a collection the caller built; the write to
\* localStorage goes through or throws (quota)
StorageSave ==
  /\ ops < MaxOps
  /\ \E fresh \in SeqUpTo({GoodFeature}, MaxLoad) : \E writeOk \in BOOLEAN :
       LET data == [i \in 1..Len(fresh) |-> Len(heap) + i]
           S == storageSave([CurStore EXCEPT !.heap = WithNew(fresh)],
                            data, writeOk)
       IN /\ CommitStore(S)
          /\ last' = Call("storageSave", IF writeOk THEN "written" ELSE "quota",
                          0, data, fresh, <<>>, NoPartial)
          /\ saved' = [set |-> TRUE, refs |-> data, cleared |-> {}]
  /\ ops' = ops + 1
  /\ UNCHANGED <<engineVars, searchInput, selectedTags>>

\* storage.clear()
StorageClear ==
  /\ ops < MaxOps
  /\ CommitStore(storageClear(CurStore))
  /\ last' = Call("storageClear", Absent, 0, <<>>, <<>>, <<>>, NoPartial)
  /\ saved' = [set |-> FALSE, refs |-> <<>>,
               cleared |-> saved.cleared \cup Objects(saved.refs)
                             \cup Objects(memoryCache.refs)]
  /\ ops' = ops + 1
  /\ UNCHANGED <<engineVars, searchInput, selectedTags>>

\* main.ts, the change handler of the import input: the file is parsed and
\* saved, the engine loads the collection, the dashboard data is refreshed;
\* a throw anywhere ends the handler in its catch
ImportFile ==
  /\ ops < MaxOps
  /\ \E text \in FileTexts : \E writeOk \in BOOLEAN :
       LET S == importFromFile(CurStore, text, writeOk)
           c == S.result.refs
       IN IF S.thrown
          THEN /\ UNCHANGED <<heap, features, markers, layerGroup,
                              eventListeners, mapClick, view, emitted, calls,
                              fits, memoryCache, localStorage, saved, loaded,
                              shownPred, added>>
               /\ last' = [Call("import", Absent, 0, <<>>, <<>>, <<>>, NoPartial)
                             EXCEPT !.thrown = TRUE]
          ELSE \E gens \in GenChoices(S.heap, c) :
                 LET E == load([Cur EXCEPT !.heap = S.heap], c, gens, leaflet)
                     S2 == IF E.thrown THEN S
                           ELSE storageLoad([S EXCEPT !.heap = E.heap],
                                            CHOOSE demo \in DemoData : TRUE)
                 IN /\ Commit(E, Call("import", Absent, 0, c,
                                      Values(S.heap, c),
                                      [i \in 1..Len(c) |->
                                         FeatureId(S.heap[c[i]], gens[i])],
                                      NoPartial))
                    /\ memoryCache' = S2.memoryCache
                    /\ localStorage' = S2.localStorage
                    /\ saved' = [set |-> TRUE, refs |-> c, cleared |-> {}]
                    /\ loaded' = [valid |-> ~E.thrown, c |-> c,
                                  fs |-> Values(S.heap, c),
                                  markers |-> E.markers,
                                  layerGroup |-> E.layerGroup, shows |-> <<>>]
                    /\ shownPred' = "all"
                    /\ added' = <<>>
  /\ ops' = ops + 1
  /\ UNCHANGED <<exported, leaflet, searchInput, selectedTags>>

NextStorage ==
  \/ StorageLoad
  \/ StorageSave
  \/ StorageClear
  \/ ImportFile

SpecStorage == InitStorage /\ [][NextStorage]_vars

----------------------------------------------------------------------------
(* UIController: the place form, deleting, searching and tag filters *)
(* a handler takes and gives the engine record E and the storage record S   *)

\* the places the stored collection holds when the app starts
UIFeatures ==
  {[id |-> "a",
    properties |-> [id |-> Absent, name |-> "X", rating |-> Absent,
                    tags |-> <<>>, comments |-> ""],
    geometry |-> CHOOSE g \in Coords : TRUE],
   [id |-> Absent,
    properties |-> [id |-> "b", name |-> "Y", rating |-> Absent,
                    tags |-> <<"t">>, comments |-> ""],
    geometry |-> CHOOSE g \in Coords : TRUE]}

\* what the user can leave in the name field of the form
FormNames == {"", "Z"}

\* saveCurrentState(): the export is saved; save runs to its end before the
\* handler goes on, since the backend is disabled and nothing is awaited
saveCurrentState(E, S, writeOk) ==
  storageSave([S EXCEPT !.heap = E.heap], export(E), writeOk)

\* appController.refreshData(): this.data = await this.storage.load()
refreshData(S) == storageLoad(S, CHOOSE demo \in DemoData : TRUE)

\* the feature handlePOIFormSubmit builds from the form
FormFeature(id, name, now) ==
  [id |-> Absent,
   properties |-> [id |-> IF id # "" THEN id ELSE now, name |-> name,
                   rating |-> Absent, tags |-> <<>>, comments |-> ""],
   geometry |-> CHOOSE g \in Coords : TRUE]

\* a submit handler that saves the state before it changes the engine
handlePOIFormSubmit_SaveFirst(E, S, id, name, now, writeOk) ==
  LET feature == FormFeature(id, name, now)
      E0 == [E EXCEPT !.heap = Append(@, feature)]
      S1 == saveCurrentState(E0, S, writeOk)
      E1 == IF id # "" THEN updateFeature(E0, id, feature.properties)
            ELSE addFeature(E0, Len(E0.heap), now, TRUE)
  IN IF name = "" THEN [E |-> E, S |-> S, valid |-> FALSE]
     ELSE [E |-> E1, S |-> refreshData([S1 EXCEPT !.heap = E1.heap]),
           valid |-> TRUE]

\* handlePOIFormSubmit(): a form without a name is rejected; a form with an
\* id updates, one without adds; then the state is saved and the dashboard
\* data refreshed
handlePOIFormSubmit(E, S, id, name, now, writeOk) ==
  LET feature == FormFeature(id, name, now)
      E0 == [E EXCEPT !.heap = Append(@, feature)]
      E1 == IF id # "" THEN updateFeature(E0, id, feature.properties)
            ELSE addFeature(E0, Len(E0.heap), now, TRUE)
      S1 == saveCurrentState(E1, S, writeOk)
  IN IF name = "" THEN [E |-> E, S |-> S, valid |-> FALSE]
     ELSE [E |-> E1, S |-> refreshData(S1), valid |-> TRUE]

\* the click handler of the delete button, once the user has confirmed
confirmDelete(E, S, ref, writeOk) ==
  LET E1 == removeFeature(E, E.heap[ref].properties.id)
      S1 == saveCurrentState(E1, S, writeOk)
  IN [E |-> E1, S |-> refreshData(S1), valid |-> TRUE]

\* applyFilters(): the selected tags alone decide
applyFilters(E, sel) == showFeatures(E, FilterName("", sel))

\* handleSearch(query)
handleSearch(E, query, sel) ==
  IF query = "" THEN applyFilters(E, sel)
  ELSE showFeatures(E, FilterName(query, sel))

\* toggleTag(tag, button): the selection after the toggle
Toggled(sel, tag) == IF tag \in sel THEN sel \ {tag} ELSE sel \cup {tag}

\* main.ts: storage.load() gave the collection, the engine loaded it, the UI
\* controller was built
InitUI ==
  \E fresh \in SeqUpTo(UIFeatures, MaxLoad) :
    /\ LoadedStart(fresh, "ok")
    /\ searchInput = ""
    /\ selectedTags = {}
    /\ memoryCache = [set |-> TRUE, refs |-> [i \in 1..Len(fresh) |-> i]]
    /\ localStorage = [pois |-> stringify(fresh, [i \in 1..Len(fresh) |-> i]),
                       queue |-> NoItem]
    /\ saved = NotSaved

\* the id field of the form: empty for a new place, else the properties.id
\* that handleFeatureClick copied from the feature of a clicked marker
FormIds ==
  {""} \cup
  ({heap[layerGroup[i].ref].properties.id : i \in 1..Len(layerGroup)}
     \ {Absent})

\* the engine and the storage layer after a handler of the UI controller
CommitUI(R, call) ==
  /\ Commit([R.E EXCEPT !.heap = R.S.heap], call)
  /\ memoryCache' = R.S.memoryCache
  /\ localStorage' = R.S.localStorage

\* the user submits the place form
SubmitForm ==
  /\ ops < MaxOps
  /\ \E id \in FormIds : \E name \in FormNames : \E writeOk \in BOOLEAN :
     \E now \in (IF id = "" /\ name # "" THEN GenIds ELSE {"poi-1"}) :
       LET R == handlePOIFormSubmit(Cur, CurStore, id, name, now, writeOk)
       IN /\ CommitUI(R, Call(IF R.valid THEN "submit" ELSE "rejected", id, 0,
                              R.S.result.refs, <<>>, <<>>, NoPartial))
          /\ saved' = IF R.valid
                      THEN [set |-> TRUE, refs |-> R.S.memoryCache.refs,
                            cleared |-> {}]
                      ELSE saved
  /\ added' = <<>>
  /\ loaded' = NotLoaded
  /\ ops' = ops + 1
  /\ UNCHANGED <<shownPred, exported, leaflet, searchInput, selectedTags>>

\* the user clicks a marker, then the delete button of the form, and confirms
ConfirmDelete ==
  /\ ops < MaxOps
  /\ \E i \in 1..Len(layerGroup) : \E writeOk \in BOOLEAN :
       LET R == confirmDelete(emit(Cur, "click", layerGroup[i].ref), CurStore,
                              layerGroup[i].ref, writeOk)
       IN /\ CommitUI(R, Call("delete", heap[layerGroup[i].ref].properties.id,
                              layerGroup[i].ref, R.S.result.refs, <<>>, <<>>,
                              NoPartial))
          /\ saved' = [set |-> TRUE, refs |-> R.S.memoryCache.refs,
                       cleared |-> {}]
  /\ added' = <<>>
  /\ loaded' = NotLoaded
  /\ ops' = ops + 1
  /\ UNCHANGED <<shownPred, exported, leaflet, searchInput, selectedTags>>

\* the user changes the text of the search input
HandleSearch ==
  /\ ops < MaxOps
  /\ \E query \in Queries :
       /\ query # searchInput
       /\ Commit(handleSearch(Cur, query, selectedTags),
                 Call("handleSearch", query, 0, <<>>, <<>>, <<>>, NoPartial))
       /\ searchInput' = query
       /\ shownPred' = IF query = "" THEN FilterName("", selectedTags)
                       ELSE FilterName(query, selectedTags)
  /\ ops' = ops + 1
  /\ UNCHANGED <<added, loaded, exported, leaflet, selectedTags, memoryCache,
                 localStorage, saved>>

\* updateTagList(): one button per tag of the features of the engine
allTags ==
  UNION {{TagsOf(heap[features[j].ref])[i] :
            i \in 1..Len(TagsOf(heap[features[j].ref]))} :
           j \in 1..Len(features)}

\* the user clicks a tag button
ToggleTag ==
  /\ ops < MaxOps
  /\ \E tag \in TagNames \cap allTags :
       /\ Commit(applyFilters(Cur, Toggled(selectedTags, tag)),
                 Call("toggleTag", tag, 0, <<>>, <<>>, <<>>, NoPartial))
       /\ selectedTags' = Toggled(selectedTags, tag)
       /\ shownPred' = FilterName("", Toggled(selectedTags, tag))
  /\ ops' = ops + 1
  /\ UNCHANGED <<added, loaded, exported, leaflet, searchInput, memoryCache,
                 localStorage, saved>>

\* the user clicks the clear-filters button
ClearFilters ==
  /\ ops < MaxOps
  /\ Commit(applyFilters(Cur, {}),
            Call("clearFilters", Absent, 0, <<>>, <<>>, <<>>, NoPartial))
  /\ selectedTags' = {}
  /\ shownPred' = FilterName("", {})
  /\ ops' = ops + 1
  /\ UNCHANGED <<added, loaded, exported, leaflet, searchInput, memoryCache,
                 localStorage, saved>>

NextUI ==
  \/ SubmitForm
  \/ ConfirmDelete
  \/ HandleSearch
  \/ ToggleTag
  \/ ClearFilters

SpecUI == InitUI /\ [][NextUI]_vars

----------------------------------------------------------------------------
(* Reading the state *)

\* every identifier that can key the store or the marker registry
AllIds == CallIds \cup GenIds

\* the reference stored under id, 0 when there is none
StoredRef(id) == Lookup(Cur, id)

\* the marker registered under id depicts the feature object ref
MarkerOf(ms, id, ref) ==
  MapHas(ms, id) /\ ms[MapIdx(ms, id)].marker.ref = ref

\* the identifiers of a sequence of entries
KeysOf(m) == {m[i].key : i \in 1..Len(m)}

\* the elements of a sequence
Range(s) == {s[i] : i \in 1..Len(s)}

----------------------------------------------------------------------------
(* C1 *)

\* C1: the adapter holds a marker for an identifier if and only if a feature
\* with that identifier is stored and satisfies the predicate of the most
\* recent showFeatures call (the always-true one after a load or a clear).
C1_MarkerIffShown ==
  \A id \in AllIds :
    MapHas(markers, id) <=>
      (MapHas(features, id) /\ Pred(shownPred, heap[StoredRef(id)]))

----------------------------------------------------------------------------
(* C2 *)

LastOfKey(j) == \A m \in (j + 1)..Len(last.c) : last.keys[m] # last.keys[j]

----------------------------------------------------------------------------
(* C3 *)

\* the identifier of a stored feature as the engine reads it from the
\* feature: the top-level id, else properties.id
IdOf(f) == FeatureId(f, Absent)

\* the entries of getAllFeatures() whose feature reads the identifier id
EntriesOf(id) ==
  {j \in 1..Len(getAllFeatures(Cur)) : IdOf(heap[getAllFeatures(Cur)[j]]) = id}

\* C3: for every feature added via addFeature (the latest one of its
\* identifier), after any later addFeature and updateFeature calls,
\* getAllFeatures() holds exactly one entry with its identifier, and its
\* properties are the added properties with every later update merged in.
C3_OneEntryMergedLatest ==
  \A i \in 1..Len(added) :
    /\ Cardinality(EntriesOf(added[i].key)) = 1
    /\ \A j \in EntriesOf(added[i].key) :
         heap[getAllFeatures(Cur)[j]].properties = added[i].properties

----------------------------------------------------------------------------
(* C4 *)

\* C4: a successful updateFeature(k, p) leaves the feature stored under k,
\* the identifier read from the feature equal to k if it was k, and the
\* feature's marker registered under k if it was registered under k.
C4_UpdateKeepsIdentifier ==
  [][(last'.op = "updateFeature" /\ last'.ref # 0) =>
       LET k == last'.id
           r == last'.ref
       IN /\ Lookup([features |-> features'], k) = r
          /\ (IdOf(heap[r]) = k => IdOf(heap'[r]) = k)
          /\ (MarkerOf(markers, k, r) => MarkerOf(markers', k, r))]_vars

----------------------------------------------------------------------------
(* C5 *)

\* C5: a successful updateFeature(k, p) is a shallow merge: every key of p
\* has p's value afterwards, every other key keeps its value, and the
\* geometry and the top-level id of the feature are unchanged.
C5_UpdateMergesShallowly ==
  [][(last'.op = "updateFeature" /\ last'.ref # 0) =>
       LET r == last'.ref
           p == last'.p
       IN /\ \A k \in {"id", "name", "rating"} :
               heap'[r].properties[k] =
                 IF p[k] # Absent THEN p[k] ELSE heap[r].properties[k]
          /\ heap'[r].geometry = heap[r].geometry
          /\ heap'[r].id = heap[r].id]_vars

\* an update has set rating and identifier and left the name it did not carry
C5_Witness ==
  /\ last.op = "updateFeature"
  /\ last.ref # 0
  /\ last.p.rating = "5"
  /\ last.p.name = Absent
  /\ heap[last.ref].properties.rating = "5"
  /\ heap[last.ref].properties.name = "X"
  /\ heap[last.ref].geometry \in Coords

----------------------------------------------------------------------------
(* C6 *)

\* C6: updateFeature and removeFeature of an identifier that is not stored
\* change neither the store nor the features nor the markers, emit nothing
\* and do not throw.
C6_UnknownIdIsNoOp ==
  [][(last'.op \in {"updateFeature", "removeFeature"}
        /\ ~MapHas(features, last'.id)) =>
       /\ UNCHANGED <<heap, features, markers, layerGroup>>
       /\ emitted' = <<>>
       /\ ~last'.thrown]_vars

\* an unknown identifier was updated or removed while the store held a
\* feature and a marker
C6_Witness ==
  /\ last.op \in {"updateFeature", "removeFeature"}
  /\ last.ref = 0
  /\ ~MapHas(features, last.id)
  /\ Len(features) > 0
  /\ Len(markers) > 0
  /\ emitted = <<>>

----------------------------------------------------------------------------
(* C7 *)

----------------------------------------------------------------------------
(* C8 *)

\* C8: addFeature(f) emits exactly one event, a created one carrying f, and
\* when it is emitted f is stored under its identifier and a marker of f is
\* registered with the adapter.
C8_AddEmitsCreatedAfterStoreAndMarker ==
  last.op = "addFeature" =>
    /\ Len(emitted) = 1
    /\ emitted[1].type = "created"
    /\ emitted[1].ref = last.ref
    /\ emitted[1].feature = heap[last.ref]
    /\ Lookup(emitted[1], last.id) = last.ref
    /\ \E i \in 1..Len(emitted[1].markers) :
         emitted[1].markers[i].marker.ref = last.ref

\* a feature without identifier was added to a store that held another one
C8_Witness ==
  /\ last.op = "addFeature"
  /\ ~HasId(last.fs[1])
  /\ Len(features) = 2
  /\ Len(emitted) = 1

----------------------------------------------------------------------------
(* C9 *)

\* C9: load emits no event.
C9_LoadEmitsNothing == last.op = "load" => emitted = <<>>

\* a collection of two features, stored under two identifiers, was loaded
C9_Witness ==
  /\ last.op = "load"
  /\ Len(last.c) = 2
  /\ Len(features) = 2
  /\ Len(markers) = 2

----------------------------------------------------------------------------
(* C10 *)

\* C10: showFeatures(p) leaves the store as it was, identifiers, order and
\* every feature's properties and geometry, and emits nothing.
C10_ShowFeaturesKeepsStore ==
  [][last'.op = "showFeatures" =>
       /\ features' = features
       /\ heap' = heap
       /\ emitted' = <<>>]_vars

\* a filter has hidden stored features
C10_Witness ==
  /\ last.op = "showFeatures"
  /\ last.id = "rated"
  /\ Len(features) = 2
  /\ markers = <<>>

----------------------------------------------------------------------------
(* Filtering *)

\* the feature objects of the drawn markers, in drawing order
DrawnRefs == [i \in 1..Len(layerGroup) |-> layerGroup[i].ref]

\* a load, then two or more showFeatures and nothing else that changes the
\* markers, the last of them with the always-true predicate
RestoredAfterLoad ==
  /\ loaded.valid
  /\ Len(loaded.shows) >= 2
  /\ loaded.shows[Len(loaded.shows)] = "all"

\* the identifier a feature carries: its top-level id, 0 included, else
\* its properties.id
CarriedId(f) == IF f.id # Absent THEN ToStr(f.id) ELSE f.properties.id

\* no two features of the sequence carry the same identifier
DistinctlyIdentified(fs) ==
  \A i, j \in 1..Len(fs) :
    i # j /\ CarriedId(fs[i]) # Absent => CarriedId(fs[i]) # CarriedId(fs[j])

\* C11: after load(c) of features that carry no identifier twice,
\* showFeatures(p) and then showFeatures(() => true) leave the adapter with
\* exactly the markers it had right after the load, one per loaded feature,
\* in load order.
C11_ShowAllRestoresLoadedMarkers ==
  RestoredAfterLoad /\ DistinctlyIdentified(loaded.fs) =>
    /\ markers = loaded.markers
    /\ layerGroup = loaded.layerGroup
    /\ DrawnRefs = loaded.c

----------------------------------------------------------------------------
(* The collection export() returns *)

\* C12: the collection export() returned does not alias the store: whatever
\* the engine is asked to do afterwards (updateFeature), every feature of the
\* returned collection still is as it was when returned.
C12_ExportedIsDetached ==
  \A i \in 1..Len(exported.refs) :
    heap[exported.refs[i]] = exported.features[i]

----------------------------------------------------------------------------
(* Identifiers *)

\* C13: addFeature stores the feature under its top-level id when it carries
\* one (any string or number, 0 included), else under its properties.id when
\* present, else under a synthesized identifier that it writes into the
\* feature's properties.id; the feature is found in the store under that key.
C13_IdentifierPrecedence ==
  last.op = "addFeature" =>
    LET f == last.fs[1]
        key == IF f.id # Absent THEN ToStr(f.id)
               ELSE IF f.properties.id # Absent THEN f.properties.id
               ELSE heap[last.ref].properties.id
    IN /\ key # Absent
       /\ StoredRef(key) = last.ref
       /\ f.id = Absent /\ f.properties.id = Absent => key \in GenIds

\* C14: a synthesized identifier never equals an identifier already in the
\* store, so every addFeature of a feature that carries no identifier adds
\* one entry to the store.
C14_SynthesizedIdIsFresh ==
  [][last'.op = "addFeature" /\ ~HasId(last'.fs[1]) =>
       /\ ~MapHas(features, last'.id)
       /\ Len(features') = Len(features) + 1]_vars

----------------------------------------------------------------------------
(* Listeners *)

\* the listener invocations made for the k-th emit() of the last call
CallsOf(k) == SelectSeq(calls, LAMBDA inv : inv.emission = k)

\* the callbacks invoked for the k-th emit() of the last call, in order
CalledFor(k) == [i \in 1..Len(CallsOf(k)) |-> CallsOf(k)[i].cb]

\* C15: every emission invokes the callbacks registered for its kind through
\* on(), once each, in the order of their registration, with the event
\* emitted; no other callback is invoked.
C15_ListenersCalledInOrder ==
  /\ \A k \in 1..Len(emitted) :
       /\ CalledFor(k) = emitted[k].listeners
       /\ \A i \in 1..Len(CallsOf(k)) :
            /\ CallsOf(k)[i].type = emitted[k].type
            /\ CallsOf(k)[i].feature = emitted[k].feature
  /\ \A i \in 1..Len(calls) : calls[i].emission \in 1..Len(emitted)

\* an event was emitted to two callbacks registered for its kind: the two
\* were called, the first registered first
C15_Witness ==
  /\ Len(emitted) = 1
  /\ emitted[1].listeners = <<"reg", "l1">>
  /\ CalledFor(1) = <<"reg", "l1">>
  /\ Len(calls) = 2

\* C16: an emission is delivered to the callbacks registered when it starts:
\* on() itself invokes nothing (no replay of earlier emissions), and a
\* callback registered by a listener while the emission runs is not invoked
\* for that emission.
C16_OnlyListenersAtStart ==
  /\ last.op = "on" => calls = <<>> /\ emitted = <<>>
  /\ \A k \in 1..Len(emitted) :
       Len(CallsOf(k)) <= Len(emitted[k].listeners)

\* reg was called for an emission and registered l1 for the same kind: l1 is
\* registered now and was not called
C16_Witness ==
  /\ Len(emitted) = 1
  /\ emitted[1].listeners = <<"reg">>
  /\ Listeners(Cur, emitted[1].type) = <<"reg", "l1">>
  /\ CalledFor(1) = <<"reg">>

----------------------------------------------------------------------------
(* Clicks on the map surface *)

\* C17: the engine is subscribed to the adapter's map clicks exactly once;
\* a click on the map surface is re-emitted as exactly one 'map:click' event
\* whose feature's properties hold the clicked lat and lng, and it leaves the
\* store, the stored features and the markers as they were.
C17_SurfaceClickReemittedOnce ==
  [][/\ Len(mapClick) = 1
     /\ Len(mapClick') = 1
     /\ last'.op = "mapClick" =>
          /\ Len(emitted') = 1
          /\ emitted'[1].type = "map:click"
          /\ emitted'[1].feature.properties =
               [lat |-> last'.c[1], lng |-> last'.c[2]]
          /\ features' = features
          /\ heap' = heap
          /\ markers' = markers
          /\ layerGroup' = layerGroup]_vars

\* the map was clicked while features were stored and drawn, and a listener
\* of 'map:click' got the clicked point
C17_Witness ==
  /\ last.op = "mapClick"
  /\ Len(features) = 1
  /\ Len(layerGroup) = 1
  /\ Len(calls) = 1
  /\ calls[1].type = "map:click"
  /\ calls[1].feature.properties.lat = 4041
  /\ calls[1].feature.properties.lng = -370

----------------------------------------------------------------------------
(* Fitting the view *)

\* C18: fitBounds never throws; without registered markers it leaves the view
\* as it was; when Leaflet gives invalid bounds or throws, the view is left
\* as it was too; the registered and the drawn markers are never changed.
C18_FitBoundsNeverRaises ==
  [][last'.op = "fitBounds" =>
       /\ ~last'.thrown
       /\ markers' = markers
       /\ layerGroup' = layerGroup
       /\ markers = <<>> \/ last'.id # "ok" => view' = view
       /\ markers # <<>> /\ last'.id = "ok" => view' = "fit"]_vars

\* fitBounds was called with markers registered and Leaflet threw
C18_Witness ==
  /\ last.op = "fitBounds"
  /\ last.id = "throws"
  /\ Len(markers) = 2
  /\ view = "initial"
  /\ ~last.thrown

----------------------------------------------------------------------------
(* What showFeatures draws *)

\* the stored feature objects filterFn p accepts, in store order
Matching(p) == SelectSeq(export(Cur), LAMBDA r : Pred(p, heap[r]))

\* C19: right after showFeatures(p) the markers the adapter draws are exactly
\* those of the stored features p accepts: nothing drawn before is left, one
\* marker is drawn per accepted feature, in store order, and every
\* registered marker is one of them.
C19_ShowFeaturesDrawsMatching ==
  last.op = "showFeatures" =>
    /\ DrawnRefs = Matching(last.id)
    /\ \A i \in 1..Len(layerGroup) :
         layerGroup[i].popup = createPopupContent(heap[layerGroup[i].ref])
    /\ \A j \in 1..Len(markers) : markers[j].marker \in Range(layerGroup)

\* of two stored features that had a marker each, the filter kept one
C19_Witness ==
  /\ last.op = "showFeatures"
  /\ last.id = "top"
  /\ Len(features) = 2
  /\ Len(layerGroup) = 1
  /\ layerGroup[1].ref = features[2].ref

----------------------------------------------------------------------------
(* Popups *)

\* the feature object ref is in the store
IsStored(ref) == \E j \in 1..Len(features) : features[j].ref = ref

\* C20: in every reachable state, the popup of every marker drawn for a
\* stored feature is the content computed from the feature's current
\* properties (updateFeature removes the old marker and draws a new one).
C20_PopupsNeverStale ==
  \A i \in 1..Len(layerGroup) :
    IsStored(layerGroup[i].ref) =>
      layerGroup[i].popup = createPopupContent(heap[layerGroup[i].ref])

----------------------------------------------------------------------------
(* fitBounds during load *)

\* C21: one load of well-formed features invokes the adapter's fitBounds
\* exactly once, when every feature of the collection has been stored and
\* rendered.
C21_LoadFitsOnceAtEnd ==
  last.op = "load" =>
    /\ Len(fits) = 1
    /\ fits[1].drawn = Len(last.c)
    /\ fits[1].stored = Len(features)

\* a collection of two features was loaded and the view fit to two markers
C21_Witness ==
  /\ last.op = "load"
  /\ Len(last.c) = 2
  /\ Len(fits) = 1
  /\ fits[1].drawn = 2
  /\ view = "fit"

----------------------------------------------------------------------------
(* The caller's objects *)

\* C23: the store changes only through engine operations and the engine does
\* not change what callers hold: an updateFeature that follows load(c) leaves
\* every feature object of the caller's collection c as it was.
C23_UpdateLeavesCallersCollection ==
  [][(last'.op = "updateFeature" /\ loaded.valid) =>
       \A i \in 1..Len(loaded.c) : heap'[loaded.c[i]] = heap[loaded.c[i]]]_vars

----------------------------------------------------------------------------
(* Marker keys *)

\* the feature objects a load or an addFeature call rendered
RenderedBy(call) == IF call.op = "load" THEN call.c ELSE <<call.ref>>

\* C24: for every feature that load or addFeature renders, the key under
\* which the adapter registers its marker equals the key under which the
\* engine stores the feature, whatever its top-level id and properties.id.
C24_MarkerKeyIsStoreKey ==
  (last.op \in {"load", "addFeature"} /\ ~last.thrown) =>
    \A j \in 1..Len(last.keys) :
      MarkerKey(heap[RenderedBy(last)[j]]) = last.keys[j]

----------------------------------------------------------------------------
(* The layer group and the registry *)

\* the marker objects of the adapter's identifier registry
RegisteredMarkers == {markers[j].marker : j \in 1..Len(markers)}

\* C25: in every reachable state the markers drawn on the layer group are
\* exactly the markers of the identifier registry, one per identifier.
C25_DrawnAreRegistered ==
  /\ Len(layerGroup) = Len(markers)
  /\ Range(layerGroup) = RegisteredMarkers

----------------------------------------------------------------------------
(* Marker clicks *)

\* C26: every click event emitted for a marker carries a feature object that
\* is in the store at the time of the click.
C26_ClickCarriesStoredFeature ==
  last.op = "markerClick" =>
    \A i \in 1..Len(emitted) : IsStored(emitted[i].ref)

----------------------------------------------------------------------------
(* Loading a collection with a malformed feature *)

\* C22: when control returns from load(c), normally or because rendering a
\* feature of c threw, the store and the drawn markers hold either the
\* features they held before the call or the features of c, never a part
\* of c.
C22_LoadIsAtomic ==
  [][(last'.op = "import" /\ last'.c # <<>>) =>
       \/ /\ features' = features
          /\ markers' = markers
          /\ layerGroup' = layerGroup
       \/ /\ [i \in 1..Len(features') |-> features'[i].ref] = last'.c
          /\ [i \in 1..Len(layerGroup') |-> layerGroup'[i].ref] = last'.c
          /\ KeysOf(markers') = KeysOf(features')]_vars

----------------------------------------------------------------------------
(* What StorageLayer.load() returns *)

\* localStorage holds a collection that parses
Readable(ls) == ls.pois.set /\ ls.pois.ok

\* the features of the collections getDefaultData can build
DefaultFeatures ==
  {Values(getDefaultData(CurStore, demo).heap,
          getDefaultData(CurStore, demo).result.refs) : demo \in DemoData}

----------------------------------------------------------------------------
(* What save() leaves in the cache layers *)

\* C30: after every save(d), the memory cache is d, localStorage spells the
\* features of d, and the sync queue is not written.
C30_SaveUpdatesAllLayers ==
  last.op = "storageSave" =>
    /\ memoryCache = [set |-> TRUE, refs |-> last.c]
    /\ localStorage.pois = stringify(heap, last.c)
    /\ ~localStorage.queue.set

----------------------------------------------------------------------------
(* What the storage layer holds after the UI changed a place *)

\* C27: when the UI controller has handled an accepted form submission (add
\* or update) or a confirmed deletion, the collection the storage layer holds
\* in its memory cache, which is also what the refresh of the dashboard data
\* got from load(), holds exactly the feature objects export() returns.
C27_StorageHoldsExport ==
  last.op \in {"submit", "delete"} =>
    /\ memoryCache = [set |-> TRUE, refs |-> export(Cur)]
    /\ last.c = export(Cur)

\* the form updated the place stored under 'b' next to another place, and
\* the storage layer holds both
C27_Witness ==
  /\ last.op = "submit"
  /\ last.id = "b"
  /\ Len(features) = 2
  /\ heap[StoredRef("b")].properties.name = "Z"
  /\ memoryCache.refs = export(Cur)

----------------------------------------------------------------------------
(* Searching and filtering by tag *)

\* the stored features that match the search text, when there is one, and a
\* selected tag, when any is selected
MatchingFilters ==
  {r \in Range(export(Cur)) :
     /\ searchInput # "" => matchesSearch(heap[r], searchInput)
     /\ selectedTags # {} => matchesTags(heap[r], selectedTags)}

\* C28: after a change of the search input, a tag toggle or a clear-filters
\* click, the features of the drawn markers are the stored features that
\* match both the search text and the selected tags.
C28_ShownMatchSearchAndTags ==
  last.op \in {"handleSearch", "toggleTag", "clearFilters"} =>
    Range(DrawnRefs) = MatchingFilters

============================================================================
